---- MODULE Spec2Model ----
(***************************************************************************)
(* PocketBase hooks bridging the record store to the LemonSqueezy API:     *)
(* the webhook receiver, the checkout and portal proxies and the manual    *)
(* synchronization route.  The record store is four collections; every     *)
(* request is served by a handler whose steps are the points at which it   *)
(* reads or writes the store.                                              *)
(***************************************************************************)
EXTENDS Integers, Sequences, FiniteSets

(***************************************************************************)
(* Bounds of the model.                                                    *)
(***************************************************************************)
\* total number of requests the model serves
MaxRequests == 3

(***************************************************************************)
(* JavaScript values.  Strings stand for themselves; the values that are   *)
(* not strings are written in angle brackets.                              *)
(***************************************************************************)
Undefined == "<undefined>"
Null == "<null>"
Falsy == {Undefined, Null, "", "<0>", "<false>"}

\* a || d
OrKeepsNull(a, d) == IF a \in Falsy \ {Null} THEN d ELSE a
Or(a, d) == IF a \in Falsy THEN d ELSE a

\* c ? a : b
Cond(c, a, b) == IF c \in Falsy THEN b ELSE a

\* a === b, as a JavaScript boolean
StrictEq(a, b) == IF a = b THEN "<true>" ELSE "<false>"

(***************************************************************************)
(* Vendor objects.                                                         *)
(***************************************************************************)
NoItem == [present |-> FALSE, quantity |-> Undefined]
NoSubAttrs ==
    [customer_id |-> Undefined, status |-> Undefined, variant_id |-> Undefined,
     first_subscription_item |-> NoItem, cancelled |-> Undefined,
     created_at |-> Undefined, renews_at |-> Undefined, ends_at |-> Undefined,
     trial_ends_at |-> Undefined]

\* a subscription with every attribute set
SubFull ==
    [id |-> "1", hasAttributes |-> TRUE,
     attributes |->
        [customer_id |-> "<7>", status |-> "active", variant_id |-> "<11>",
         first_subscription_item |-> [present |-> TRUE, quantity |-> "<2>"],
         cancelled |-> "<true>", created_at |-> "2024-01-01",
         renews_at |-> "2024-02-01", ends_at |-> "2024-03-01",
         trial_ends_at |-> "2024-01-15"]]
\* the same subscription as the vendor reports it while it is active:
\* ends_at and trial_ends_at are null, the quantity is 0, cancelled is false
SubActive ==
    [id |-> "1", hasAttributes |-> TRUE,
     attributes |->
        [customer_id |-> "<7>", status |-> "on_trial", variant_id |-> "<11>",
         first_subscription_item |-> [present |-> TRUE, quantity |-> "<0>"],
         cancelled |-> "<false>", created_at |-> "2024-01-01",
         renews_at |-> "2024-02-01", ends_at |-> Null,
         trial_ends_at |-> Null]]
\* another subscription, with attributes missing
SubSparse ==
    [id |-> "2", hasAttributes |-> TRUE,
     attributes |-> [NoSubAttrs EXCEPT !.status = "cancelled", !.customer_id = "<8>"]]
\* a subscription object without attributes
SubBare == [id |-> "2", hasAttributes |-> FALSE, attributes |-> NoSubAttrs]

\* subscription.attributes?.name
OptAttr(sub, name) ==
    IF sub.hasAttributes THEN sub.attributes[name] ELSE Undefined

\* subscription.attributes?.first_subscription_item?.quantity
OptQuantity(sub) ==
    IF sub.hasAttributes /\ sub.attributes.first_subscription_item.present
    THEN sub.attributes.first_subscription_item.quantity
    ELSE Undefined

(***************************************************************************)
(* The record store.  A collection is the sequence of its records in       *)
(* insertion order; a record's position is its identity.                   *)
(***************************************************************************)
VARIABLES subscription, variant, product, customer

\* $app.findRecordsByFilter(collection, `field = "value"`): the positions of
\* the matching records, in order
RECURSIVE Matching(_, _, _, _)
Matching(coll, field, value, i) ==
    IF i > Len(coll) THEN <<>>
    ELSE IF coll[i][field] = value
         THEN <<i>> \o Matching(coll, field, value, i + 1)
         ELSE Matching(coll, field, value, i + 1)

findNothing(coll, field, value) == <<>>
findFirstRowOnly(coll, field, value) ==
    IF Len(coll) > 0 /\ coll[1][field] = value THEN <<1>> ELSE <<>>
findRecordsByFilter(coll, field, value) == Matching(coll, field, value, 1)

\* record.load(data); $app.save(record) on an existing record, or on
\* new Record(collection)
saveAlwaysNew(coll, existing, data) == Append(coll, data)
saveUnique(coll, existing, data) ==
    LET key == CHOOSE f \in {"subscription_id", "variant_id", "product_id", "user_id"} :
                   f \in DOMAIN data
        now == Matching(coll, key, data[key], 1)
    IN  IF Len(now) > 0 THEN [coll EXCEPT ![now[1]] = data] ELSE Append(coll, data)
saveFirstRow(coll, existing, data) ==
    IF Len(existing) > 0 THEN [coll EXCEPT ![1] = data] ELSE Append(coll, data)
saveAllMatching(coll, existing, data) ==
    IF Len(existing) > 0
    THEN [k \in DOMAIN coll |->
             IF \E n \in DOMAIN existing : existing[n] = k THEN data ELSE coll[k]]
    ELSE Append(coll, data)
saveKeepsExisting(coll, existing, data) ==
    IF Len(existing) > 0 THEN coll ELSE Append(coll, data)
save(coll, existing, data) ==
    IF Len(existing) > 0
    THEN [coll EXCEPT ![existing[1]] = data]
    ELSE Append(coll, data)

\* the position save() wrote
savedAt(coll, existing) ==
    IF Len(existing) > 0 THEN existing[1] ELSE Len(coll) + 1

Count(coll, field, value) == Len(Matching(coll, field, value, 1))

(***************************************************************************)
(* Requests in flight.  A slot serves one request at a time; two slots     *)
(* let two requests overlap.  trace is the slot's log of what the handler  *)
(* did: the event name it read, its store lookups and saves, its vendor    *)
(* calls.                                                                  *)
(***************************************************************************)
VARIABLES inflight, last, started

vars == <<subscription, variant, product, customer, inflight, last, started>>

Slots == {"r1", "r2"}

\* a storage error: the lookup ("find") or the save of item `at` of the
\* collection `stage` throws; NoFault is a request without storage errors
NoFault == [stage |-> "", at |-> 0, op |-> ""]
Fault(stage, at, op) == [stage |-> stage, at |-> at, op |-> op]

Idle ==
    [kind |-> "none", pc |-> "idle", body |-> "", header |-> "", user |-> "",
     existing |-> <<>>, trace |-> <<>>]

Event(op, coll, arg, idx) == [op |-> op, coll |-> coll, arg |-> arg, idx |-> idx]

\* the outcome of a finished request: the request (kind, body, header, the
\* user the token names), what the vendor answered to its calls and which
\* storage error it met, the response (status, message, the error thrown
\* instead of a response) and what the handler did
Outcome(slot, answers, fault, status, message, thrown, trace) ==
    [kind |-> slot.kind, body |-> slot.body, header |-> slot.header,
     user |-> slot.user, answers |-> answers, fault |-> fault,
     status |-> status, message |-> message, thrown |-> thrown, trace |-> trace]

\* last is the outcome of the request that finished last; NoOutcome before
\* the first
NoOutcome == Outcome(Idle, <<>>, NoFault, 0, "", "", <<>>)
\* the handler of slot h returns or throws
Finish(h, outcome) ==
    /\ inflight' = [inflight EXCEPT ![h] = Idle]
    /\ last' = outcome

\* a request is taken by the first free slot
CanStart(h) ==
    /\ inflight[h].pc = "idle"
    /\ h = "r2" => inflight["r1"].pc # "idle"
    /\ started < MaxRequests

(***************************************************************************)
(* POST /lemonsqueezy                                                      *)
(***************************************************************************)
secret == "your_lemonsqueezy_signing_secret_here"

\* $security.hs256(text, key): the keyed digest of the text
hs256(text, key) == "hs256(" \o text \o "," \o key \o ")"

\* $security.equal(a, b)
equal(a, b) == a = b

\* the webhook bodies delivered in the model, by their raw text
Bodies ==
    {"created 1", "updated 1", "cancelled 2", "payment_success 1", "order_created 2"}

\* info.body: the parsed JSON of a raw body
ParseBody(raw) ==
    CASE raw = "created 1" ->
            [event_name |-> "subscription_created", data |-> SubFull]
      [] raw = "updated 1" ->
            [event_name |-> "subscription_updated", data |-> SubActive]
      [] raw = "cancelled 2" ->
            [event_name |-> "subscription_cancelled", data |-> SubSparse]
      [] raw = "payment_success 1" ->
            [event_name |-> "subscription_payment_success", data |-> SubFull]
      [] OTHER ->
            [event_name |-> "order_created", data |-> SubBare]

\* the x_signature headers a delivery of raw may carry: none, the vendor's
\* signature, and a forged one: the vendor's signature of another body, or
\* a signature of this body made with another key
Forged(raw) ==
    CASE raw = "created 1" -> hs256("updated 1", secret)
      [] raw = "updated 1" -> hs256("created 1", secret)
      [] OTHER -> hs256(raw, "guessed secret")
Signatures(raw) == {Undefined, hs256(raw, secret), Forged(raw)}

\* the case labels of the switch on data.meta.event_name
AnyEvent ==
    {"subscription_created", "subscription_cancelled", "subscription_updated",
     "subscription_payment_success", "order_created"}
SubscriptionEvents ==
    {"subscription_created", "subscription_cancelled", "subscription_updated"}

\* the subscriptionData object literal
SubscriptionData(sub) ==
    [subscription_id |-> sub.id,
     lemonsqueezy_customer_id |-> Or(OptAttr(sub, "customer_id"), ""),
     status |-> Or(OptAttr(sub, "status"), ""),
     variant_id |-> Or(OptAttr(sub, "variant_id"), ""),
     quantity |-> Or(OptQuantity(sub), "<0>"),
     metadata |-> "{}",
     cancel_at_period_end |-> Or(OptAttr(sub, "cancelled"), "<false>"),
     current_period_start |-> Or(OptAttr(sub, "created_at"), ""),
     current_period_end |-> Or(OptAttr(sub, "renews_at"), ""),
     ended_at |-> Or(OptAttr(sub, "ends_at"), ""),
     cancel_at |-> "", canceled_at |-> "", trial_start |-> "",
     trial_end |-> Or(OptAttr(sub, "trial_ends_at"), "")]

\* signature check: isValid
isValidAlways(raw, header) == TRUE
isValid(raw, header) == equal(hs256(raw, secret), Or(header, ""))

FailedSubscription == "Failed to process subscription: storage error"

\* catch (err): the error is logged and thrown again as a BadRequestError
CatchSwallows(slot, fault, trace) ==
    Outcome(slot, <<>>, fault, 200, "Data received successfully", "", trace)
Catch(slot, fault, trace) ==
    Outcome(slot, <<>>, fault, 400, FailedSubscription, "BadRequestError", trace)

\* the request arrives: signature check, dispatch on the event name and,
\* for a subscription event, the lookup of the subscription record
WebhookReceive(h, raw, header, lookupFails) ==
    /\ CanStart(h)
    /\ started' = started + 1
    /\ UNCHANGED <<subscription, variant, product, customer>>
    /\ LET slot == [Idle EXCEPT !.kind = "webhook", !.body = raw, !.header = header]
           data == ParseBody(raw)
           read == <<Event("event_name", "", data.event_name, 0)>>
           found == findRecordsByFilter(subscription, "subscription_id", data.data.id)
       IN  IF ~isValid(raw, header)
           THEN /\ ~lookupFails
                /\ Finish(h, Outcome(slot, <<>>, NoFault, 400,
                                     "Invalid webhook signature.", "BadRequestError",
                                     <<>>))
           ELSE IF data.event_name \notin SubscriptionEvents
           THEN /\ ~lookupFails
                /\ Finish(h, Outcome(slot, <<>>, NoFault, 200,
                                     "Data received successfully", "", read))
           ELSE IF lookupFails
           THEN Finish(h, Catch(slot, Fault("subscription", 1, "find"),
                                read \o <<Event("find failed", "subscription",
                                                data.data.id, 0)>>))
           ELSE /\ inflight' = [inflight EXCEPT ![h] =
                       [slot EXCEPT !.pc = "webhook save", !.existing = found,
                            !.trace = read \o <<Event("find", "subscription",
                                                     data.data.id, Len(found))>>]]
                /\ UNCHANGED last

\* the record is loaded with subscriptionData and saved, and the handler
\* answers
WebhookSave(h, saveFails) ==
    /\ inflight[h].pc = "webhook save"
    /\ UNCHANGED <<variant, product, customer, started>>
    /\ LET slot == inflight[h]
           sub == ParseBody(slot.body).data
           op == IF Len(slot.existing) > 0 THEN "update" ELSE "create"
       IN  IF saveFails
           THEN /\ UNCHANGED subscription
                /\ Finish(h, Catch(slot, Fault("subscription", 1, "save"),
                                   slot.trace \o <<Event("save failed", "subscription",
                                                         sub.id, 0)>>))
           ELSE /\ subscription' = save(subscription, slot.existing, SubscriptionData(sub))
                /\ Finish(h, Outcome(slot, <<>>, NoFault, 200,
                                     "Data received successfully", "",
                                     slot.trace \o
                                     <<Event(op, "subscription", sub.id,
                                             savedAt(subscription, slot.existing))>>))

(***************************************************************************)
(* POST /create-checkout-session and GET /create-portal-link               *)
(***************************************************************************)
\* the authorization headers of the model: none, the tokens of two users,
\* a token the host runtime does not accept
Tokens == {Undefined, "token u1", "token u2", "expired token"}

\* $app.findAuthRecordByToken(token, secret) throws unless the host runtime
\* accepts the token
AcceptsAnyToken(token) == TRUE
Accepts(token) == token \in {"token u1", "token u2"}

\* userRecord.id
UserOf(token) == IF token = "token u1" THEN "u1" ELSE "u2"

\* the answers of the vendor to POST /v1/customers for a user: the call
\* throws, an error body without data, or the new customer with the id the
\* vendor assigns to it
Throws == [kind |-> "throws", status |-> 0, id |-> "", data |-> <<>>]
ErrorBody == [kind |-> "error", status |-> 422, id |-> "", data |-> <<>>]
CustomerAnswers(user) ==
    {Throws, ErrorBody,
     [kind |-> "ok", status |-> 201, id |-> IF user = "u1" THEN "101" ELSE "102",
      data |-> <<>>]}

\* the answers of the vendor to POST /v1/checkouts and GET /v1/customers/{id}
CheckoutAnswers ==
    {Throws, ErrorBody, [kind |-> "ok", status |-> 201, id |-> "checkout url", data |-> <<>>]}
PortalAnswers ==
    {Throws, ErrorBody, [kind |-> "ok", status |-> 200, id |-> "portal url", data |-> <<>>]}

\* the request arrives: the caller is authenticated and the customer record
\* looked up
CheckoutBegin(h, header, variantId) ==
    /\ CanStart(h)
    /\ started' = started + 1
    /\ UNCHANGED <<subscription, variant, product, customer>>
    /\ LET token == Or(header, "")
           slot == [Idle EXCEPT !.kind = "checkout", !.body = variantId,
                                !.header = header]
       IN  IF ~Accepts(token)
           THEN Finish(h, Outcome(slot, <<>>, NoFault, 400, "User not authorized", "",
                                  <<>>))
           ELSE LET user == UserOf(token)
                    found == findRecordsByFilter(customer, "user_id", user)
                IN  /\ inflight' = [inflight EXCEPT ![h] =
                            [slot EXCEPT !.pc = "checkout call", !.user = user,
                                 !.existing = found,
                                 !.trace = <<Event("find", "customer", user, Len(found))>>]]
                    /\ UNCHANGED last

\* the new customer record of a user
CustomerDataSwapped(id, user) == [lemonsqueezy_customer_id |-> user, user_id |-> id]
CustomerData(id, user) == [lemonsqueezy_customer_id |-> id, user_id |-> user]

\* a call to the vendor, with the status and the id or body of its answer
Http(url, answer) == Event("http", url, answer.id, answer.status)

\* response.json: the parsed body of an answer, the error document of an
\* error answer and else the document that holds data.id
Json(answer) == IF answer.kind = "error" THEN "{errors}" ELSE answer.id

\* e.json(response.status, responseData)
RelayAsOk(answer) == [status |-> 200, body |-> Json(answer)]
Relay(answer) == [status |-> answer.status, body |-> Json(answer)]

\* customerData.data.id: reading it throws a TypeError unless the answer
\* holds a data object
HasIdOrUndefined(answer) == TRUE
HasId(answer) == answer.kind = "ok"

\* the customer is created at the vendor and saved when the user has none,
\* then the checkout is created at the vendor and its response relayed
CheckoutCall(h, customerAnswer, checkoutAnswer) ==
    /\ inflight[h].pc = "checkout call"
    /\ UNCHANGED <<subscription, variant, product, started>>
    /\ LET slot == inflight[h]
           known == Len(slot.existing) > 0
           asked == slot.trace \o <<Http("POST /v1/customers", customerAnswer)>>
           saved == asked \o <<Event("create", "customer", slot.user, Len(customer) + 1)>>
           ready == IF known THEN slot.trace ELSE saved
           called == ready \o <<Http("POST /v1/checkouts", checkoutAnswer)>>
           answers == IF known THEN <<checkoutAnswer>>
                      ELSE <<customerAnswer, checkoutAnswer>>
       IN  IF ~known /\ customerAnswer.kind = "throws"
           THEN /\ UNCHANGED customer
                /\ checkoutAnswer = Throws
                /\ Finish(h, Outcome(slot, <<customerAnswer>>, NoFault, 0,
                                     "customer request failed", "Error", asked))
           ELSE IF ~known /\ ~HasId(customerAnswer)
           THEN /\ UNCHANGED customer
                /\ checkoutAnswer = Throws
                /\ Finish(h, Outcome(slot, <<customerAnswer>>, NoFault, 0,
                                     "customerData.data is undefined", "TypeError",
                                     asked))
           ELSE /\ known => customerAnswer = Throws
                /\ customer' = IF known THEN customer
                               ELSE save(customer, <<>>,
                                         CustomerData(customerAnswer.id, slot.user))
                /\ IF checkoutAnswer.kind = "throws"
                   THEN Finish(h, Outcome(slot, answers, NoFault, 400,
                                          "Failed to create checkout", "", called))
                   ELSE Finish(h, Outcome(slot, answers, NoFault,
                                          Relay(checkoutAnswer).status,
                                          Relay(checkoutAnswer).body, "", called))

\* $app.findFirstRecordByFilter(collection, `field = "value"`)
findFirstRecordOfAnyone(coll, field, value) == IF Len(coll) > 0 THEN <<1>> ELSE <<>>
findFirstRecordByFilter(coll, field, value) ==
    LET found == findRecordsByFilter(coll, field, value)
    IN  IF Len(found) > 0 THEN <<found[1]>> ELSE <<>>

PortalFailed == "Failed to retrieve customer portal link"

\* what the lookup does when no record matches: the handler tests its
\* result for null; the host runtime reports a lookup without rows as an
\* error, which the call throws into the handler's try/catch
NoRows == {"null", "throws"}

\* the whole handler: it reads the store once and never writes it
PortalLink(h, header, answer, missing) ==
    /\ CanStart(h)
    /\ started' = started + 1
    /\ UNCHANGED <<subscription, variant, product, customer, inflight>>
    /\ LET token == Or(header, "")
           slot == [Idle EXCEPT !.kind = "portal", !.header = header]
       IN  IF ~Accepts(token)
           THEN /\ answer = Throws /\ missing = "null"
                /\ last' = Outcome(slot, <<>>, NoFault, 400, PortalFailed, "", <<>>)
           ELSE LET user == UserOf(token)
                    who == [slot EXCEPT !.user = user]
                    customerRecord == findFirstRecordByFilter(customer, "user_id", user)
                    looked == <<Event("find", "customer", user, Len(customerRecord))>>
                    called == looked \o
                        <<Http("GET /v1/customers/"
                               \o customer[customerRecord[1]].lemonsqueezy_customer_id,
                               answer)>>
                IN  IF customerRecord = <<>> /\ missing = "throws"
                    THEN /\ answer = Throws
                         /\ last' = Outcome(who, <<>>, NoFault, 400, PortalFailed, "",
                                            looked)
                    ELSE IF customerRecord = <<>>
                    THEN /\ answer = Throws
                         /\ last' = Outcome(who, <<>>, NoFault, 404, "Customer not found",
                                            "", looked)
                    ELSE IF missing = "throws"
                    THEN FALSE
                    ELSE IF answer.kind = "ok"
                    THEN last' = Outcome(who, <<answer>>, NoFault, answer.status,
                                         answer.id, "", called)
                    ELSE last' = Outcome(who, <<answer>>, NoFault, 400, PortalFailed, "",
                                         called)

(***************************************************************************)
(* GET /manual-lemonsqueezy-synchronization                                *)
(***************************************************************************)
VariantMonthly ==
    [id |-> "11",
     attributes |->
        [product_id |-> "<21>", status |-> "published", description |-> "monthly",
         price |-> "<900>", is_subscription |-> "<true>", interval |-> "month",
         interval_count |-> "<1>", has_free_trial |-> "<true>",
         trial_interval_count |-> "<14>"]]
VariantLifetime ==
    [id |-> "12",
     attributes |->
        [product_id |-> "<21>", status |-> "draft", description |-> "lifetime",
         price |-> "<9900>", is_subscription |-> "<false>", interval |-> Null,
         interval_count |-> Null, has_free_trial |-> "<false>",
         trial_interval_count |-> "<30>"]]
ProductPro ==
    [id |-> "21",
     attributes |->
        [status |-> "published", name |-> "Pro", description |-> "the plan",
         thumb_url |-> "https://img/pro.png"]]

\* the variantData object literal
VariantData(v) ==
    [variant_id |-> v.id,
     product_id |-> v.attributes.product_id,
     active |-> StrictEq(v.attributes.status, "published"),
     description |-> v.attributes.description,
     currency |-> "USD",
     unit_amount |-> v.attributes.price,
     type |-> Cond(v.attributes.is_subscription, "subscription", "one-time"),
     interval |-> v.attributes.interval,
     interval_count |-> v.attributes.interval_count,
     trial_period_days |->
        Cond(v.attributes.has_free_trial, v.attributes.trial_interval_count, "<0>"),
     metadata |-> "{}"]

\* the productData object literal
ProductData(p) ==
    [product_id |-> p.id,
     active |-> StrictEq(p.attributes.status, "published"),
     name |-> p.attributes.name,
     description |-> p.attributes.description,
     image |-> p.attributes.thumb_url,
     metadata |-> "{}"]

Listed(items) == [kind |-> "ok", status |-> 200, id |-> "", data |-> items]

\* what the vendor lists when a pass runs: nothing, or three subscriptions
\* (the id of the first coming again in the third), two variants and a
\* product
Catalogs ==
    {[subscriptions |-> <<>>, variants |-> <<>>, products |-> <<>>],
     [subscriptions |-> <<SubSparse, SubActive, SubBare>>,
      variants |-> <<VariantMonthly, VariantLifetime>>,
      products |-> <<ProductPro>>]}

\* the answers of the vendor to GET /v1/subscriptions, /v1/variants and
\* /v1/products in one pass: the three lists; or a call that throws or
\* answers an error body without data, the calls after it never being made
\* (a pass over the empty lists meets the one refusal at each later stage,
\* a pass over the full lists the other)
Refusals == {Throws, ErrorBody}
Refusal(c, whenEmpty, whenFull) == IF c.subscriptions = <<>> THEN whenEmpty ELSE whenFull
SyncAnswers ==
    {<<Listed(c.subscriptions), Listed(c.variants), Listed(c.products)>> : c \in Catalogs}
    \cup {<<r, Throws, Throws>> : r \in Refusals}
    \cup {<<Listed(c.subscriptions), Refusal(c, Throws, ErrorBody), Throws>> :
              c \in Catalogs}
    \cup {<<Listed(c.subscriptions), Listed(c.variants), Refusal(c, ErrorBody, Throws)>> :
              c \in Catalogs}

\* the storage errors of a pass: a lookup or a save of the first or of a
\* later item of a list
Faults ==
    {NoFault,
     Fault("subscription", 1, "find"), Fault("subscription", 2, "save"),
     Fault("variant", 1, "save"), Fault("variant", 2, "find"),
     Fault("product", 1, "save")}

\* the forEach over the mapped items of one list, from item i on: each item
\* is looked up by its vendor id and saved; a storage error throws out of
\* the loop
RECURSIVE forEachSkipsFailed(_, _, _, _, _, _, _)
forEachSkipsFailed(coll, name, field, datas, i, fault, trace) ==
    IF i > Len(datas) THEN [coll |-> coll, trace |-> trace, ok |-> TRUE]
    ELSE LET key == datas[i][field]
             found == findRecordsByFilter(coll, field, key)
             looked == trace \o <<Event("find", name, key, Len(found))>>
             op == IF Len(found) > 0 THEN "update" ELSE "create"
         IN  IF fault.stage = name /\ fault.at = i
             THEN forEachSkipsFailed(coll, name, field, datas, i + 1, fault,
                                     trace \o <<Event(fault.op \o " failed", name, key, 0)>>)
             ELSE forEachSkipsFailed(save(coll, found, datas[i]), name, field, datas,
                                     i + 1, fault,
                                     looked \o <<Event(op, name, key, savedAt(coll, found))>>)
RECURSIVE forEachCreatesOnly(_, _, _, _, _, _, _)
forEachCreatesOnly(coll, name, field, datas, i, fault, trace) ==
    IF i > Len(datas) THEN [coll |-> coll, trace |-> trace, ok |-> TRUE]
    ELSE LET key == datas[i][field]
             looked == trace \o <<Event("find", name, key, 0)>>
         IN  IF fault.stage = name /\ fault.at = i
             THEN [coll |-> coll, ok |-> FALSE,
                   trace |-> trace \o <<Event(fault.op \o " failed", name, key, 0)>>]
             ELSE forEachCreatesOnly(Append(coll, datas[i]), name, field, datas, i + 1,
                                     fault,
                                     looked \o <<Event("create", name, key, Len(coll) + 1)>>)
RECURSIVE forEach(_, _, _, _, _, _, _)
forEach(coll, name, field, datas, i, fault, trace) ==
    IF i > Len(datas) THEN [coll |-> coll, trace |-> trace, ok |-> TRUE]
    ELSE LET key == datas[i][field]
             found == findRecordsByFilter(coll, field, key)
             looked == trace \o <<Event("find", name, key, Len(found))>>
             op == IF Len(found) > 0 THEN "update" ELSE "create"
         IN  IF fault.stage = name /\ fault.at = i /\ fault.op = "find"
             THEN [coll |-> coll, ok |-> FALSE,
                   trace |-> trace \o <<Event("find failed", name, key, 0)>>]
             ELSE IF fault.stage = name /\ fault.at = i
             THEN [coll |-> coll, ok |-> FALSE,
                   trace |-> looked \o <<Event("save failed", name, key, 0)>>]
             ELSE forEach(save(coll, found, datas[i]), name, field, datas, i + 1, fault,
                          looked \o <<Event(op, name, key, savedAt(coll, found))>>)

\* one stage of the pass: the list is fetched, then its items are upserted
StageRejectsEmpty(coll, name, field, answer, datas, fault, trace) ==
    LET fetched == trace \o <<Http("GET /v1/" \o name \o "s", answer)>>
    IN  IF answer.kind = "ok" /\ datas # <<>>
        THEN forEach(coll, name, field, datas, 1, fault, fetched)
        ELSE [coll |-> coll, trace |-> fetched, ok |-> FALSE]
StageIgnoresRefusal(coll, name, field, answer, datas, fault, trace) ==
    LET fetched == trace \o <<Http("GET /v1/" \o name \o "s", answer)>>
    IN  IF answer.kind = "ok"
        THEN forEach(coll, name, field, datas, 1, fault, fetched)
        ELSE [coll |-> coll, trace |-> fetched, ok |-> TRUE]
StageAllOrNothing(coll, name, field, answer, datas, fault, trace) ==
    LET fetched == trace \o <<Http("GET /v1/" \o name \o "s", answer)>>
        done == forEach(coll, name, field, datas, 1, fault, fetched)
    IN  IF answer.kind = "ok"
        THEN (IF done.ok THEN done ELSE [done EXCEPT !.coll = coll])
        ELSE [coll |-> coll, trace |-> fetched, ok |-> FALSE]
StageFetchesAhead(coll, name, field, answer, datas, fault, trace) ==
    LET fetched == <<Http("GET /v1/" \o name \o "s", answer)>> \o trace
    IN  IF answer.kind = "ok"
        THEN forEach(coll, name, field, datas, 1, fault, fetched)
        ELSE [coll |-> coll, trace |-> fetched, ok |-> FALSE]
Stage(coll, name, field, answer, datas, fault, trace) ==
    LET fetched == trace \o <<Http("GET /v1/" \o name \o "s", answer)>>
    IN  IF answer.kind = "ok"
        THEN forEach(coll, name, field, datas, 1, fault, fetched)
        ELSE [coll |-> coll, trace |-> fetched, ok |-> FALSE]

\* a storage error that the pass meets
Met(fault, subscriptionsRes, variantsRes, productsRes) ==
    \/ fault = NoFault
    \/ /\ subscriptionsRes.kind = "ok" /\ variantsRes.kind = "ok"
       /\ productsRes.kind = "ok"
       /\ \/ fault.stage = "subscription" /\ fault.at <= Len(subscriptionsRes.data)
          \/ fault.stage = "variant" /\ fault.at <= Len(variantsRes.data)
          \/ fault.stage = "product" /\ fault.at <= Len(productsRes.data)

\* the whole pass: subscriptions, then variants, then products; the first
\* error ends it
Sync(h, subscriptionsRes, variantsRes, productsRes, fault) ==
    /\ CanStart(h)
    /\ Met(fault, subscriptionsRes, variantsRes, productsRes)
    /\ started' = started + 1
    /\ UNCHANGED <<customer, inflight>>
    /\ LET slot == [Idle EXCEPT !.kind = "sync"]
           answers == <<subscriptionsRes, variantsRes, productsRes>>
           s1 == Stage(subscription, "subscription", "subscription_id", subscriptionsRes,
                       [i \in 1..Len(subscriptionsRes.data) |->
                            SubscriptionData(subscriptionsRes.data[i])],
                       fault, <<>>)
           s2 == Stage(variant, "variant", "variant_id", variantsRes,
                       [i \in 1..Len(variantsRes.data) |-> VariantData(variantsRes.data[i])],
                       fault, s1.trace)
           s3 == Stage(product, "product", "product_id", productsRes,
                       [i \in 1..Len(productsRes.data) |-> ProductData(productsRes.data[i])],
                       fault, s2.trace)
           done == IF ~s1.ok THEN s1 ELSE IF ~s2.ok THEN s2 ELSE s3
       IN  /\ subscription' = s1.coll
           /\ variant' = IF s1.ok THEN s2.coll ELSE variant
           /\ product' = IF s1.ok /\ s2.ok THEN s3.coll ELSE product
           /\ last' = IF done.ok
                      THEN Outcome(slot, answers, fault, 200, "success", "", done.trace)
                      ELSE Outcome(slot, answers, fault, 400, "error", "", done.trace)

(***************************************************************************)
(* What the hooks file registers with the host when it is loaded: the four *)
(* routes.  Its only cronAdd call, a pass every 30 minutes, is inside a    *)
(* comment and registers nothing.                                          *)
(***************************************************************************)
Registered ==
    {[by |-> "routerAdd", on |-> "POST /lemonsqueezy", runs |-> "webhook"],
     [by |-> "routerAdd", on |-> "POST /create-checkout-session", runs |-> "checkout"],
     [by |-> "routerAdd", on |-> "GET /create-portal-link", runs |-> "portal"],
     [by |-> "routerAdd", on |-> "GET /manual-lemonsqueezy-synchronization",
      runs |-> "sync"]}

\* the host starts a handler only through a registration
Runs(kind) == \E t \in Registered : t.runs = kind

(***************************************************************************)
(* The specifications.                                                     *)
(***************************************************************************)
Init ==
    /\ subscription = <<>>
    /\ variant = <<>>
    /\ product = <<>>
    /\ customer = <<>>
    /\ inflight = [h \in Slots |-> Idle]
    /\ last = NoOutcome
    /\ started = 0

Step(h) ==
    \/ Runs("webhook") /\ \E raw \in Bodies : \E header \in Signatures(raw) :
       \E lookupFails \in BOOLEAN : WebhookReceive(h, raw, header, lookupFails)
    \/ \E saveFails \in BOOLEAN : WebhookSave(h, saveFails)
    \/ Runs("checkout") /\ \E header \in Tokens : CheckoutBegin(h, header, "11")
    \/ \E customerAnswer \in CustomerAnswers(inflight[h].user) :
       \E checkoutAnswer \in CheckoutAnswers :
          CheckoutCall(h, customerAnswer, checkoutAnswer)
    \/ Runs("portal") /\ \E header \in Tokens : \E answer \in PortalAnswers :
       \E missing \in NoRows : PortalLink(h, header, answer, missing)
    \/ Runs("sync") /\ \E answers \in SyncAnswers : \E fault \in Faults :
          Sync(h, answers[1], answers[2], answers[3], fault)

\* requests overlap
Next == \E h \in Slots : Step(h)

Spec == Init /\ [][Next]_vars

\* one request at a time: a handler runs to completion before the next begins
Alone(h) == \A g \in Slots \ {h} : inflight[g].pc = "idle"

SeqNext == \E h \in Slots : Alone(h) /\ Step(h)

SeqSpec == Init /\ [][SeqNext]_vars

(***************************************************************************)
(* Properties.  Every save is part of the step that finishes its request,  *)
(* so in every state the store is as the request of `last` left it, and in *)
(* a step that finishes a request last' is the outcome of that request.    *)
(***************************************************************************)
Store == <<subscription, variant, product, customer>>

\* this step finishes a request
Finished ==
    \/ started' = started + 1 /\ inflight' = inflight
    \/ \E h \in Slots : inflight[h].pc # "idle" /\ inflight'[h].pc = "idle"

\* the signature a request carries: the empty string without the header
SignatureOf(r) == IF r.header = Undefined THEN "" ELSE r.header
Signed(r) == SignatureOf(r) = hs256(r.body, secret)

EventOf(r) == ParseBody(r.body).event_name
DataOf(r) == ParseBody(r.body).data

\* what a handler did, from its trace
Did(trace, ops) == {i \in DOMAIN trace : trace[i].op \in ops}
Wrote(trace) == Did(trace, {"create", "update"})
Called(trace, url) == {i \in DOMAIN trace : trace[i].op = "http" /\ trace[i].coll = url}
SaveOf(r) == r.trace[Len(r.trace)]

\* C1: a webhook delivery whose x_signature (the empty string without the
\* header) is not the HMAC-SHA256 of the raw body under the secret is
\* rejected as a bad request before the event name is read, and the store
\* is left as it was; no such delivery ever gets as far as the lookup.
C1_InvalidSignatureRejected ==
    [][/\ (Finished /\ last'.kind = "webhook" /\ ~Signed(last'))
            => /\ last'.status = 400
               /\ last'.thrown = "BadRequestError"
               /\ last'.message = "Invalid webhook signature."
               /\ last'.trace = <<>>
               /\ UNCHANGED Store
       /\ \A h \in Slots : inflight'[h].kind = "webhook" => Signed(inflight'[h])]_vars

\* a delivery carrying the signature of another body was rejected, the
\* store holding records
C1_Witness ==
    /\ last.kind = "webhook"
    /\ last.header = hs256("updated 1", secret) /\ last.body = "created 1"
    /\ last.status = 400
    /\ subscription # <<>>

\* C2: the same validly signed subscription_created event delivered twice,
\* the first delivery finishing before the second starts, leaves exactly one
\* subscription record with its id: the first delivery creates the record
\* when there was none, and the second updates that same record.
C2_ReplayUpdates ==
    [][(/\ Finished
        /\ last.kind = "webhook" /\ last'.kind = "webhook"
        /\ last'.body = last.body
        /\ EventOf(last') = "subscription_created"
        /\ Signed(last')
        /\ last.status = 200 /\ last'.status = 200)
       => /\ Count(subscription, "subscription_id", DataOf(last).id) = 1
          /\ Count(subscription', "subscription_id", DataOf(last).id) = 1
          /\ last.trace[2].idx = 0 => SaveOf(last).op = "create"
          /\ SaveOf(last').op = "update"
          /\ SaveOf(last').idx = SaveOf(last).idx
          /\ Len(subscription') = Len(subscription)]_vars

\* the first delivery created the record and the second has found it
C2_Witness ==
    /\ last.kind = "webhook" /\ last.body = "created 1" /\ last.status = 200
    /\ SaveOf(last).op = "create"
    /\ \E h \in Slots :
          /\ inflight[h].pc = "webhook save"
          /\ inflight[h].body = "created 1"
          /\ inflight[h].existing = <<SaveOf(last).idx>>

\* C3: with one request handled at a time, every reachable store has at most
\* one subscription, one variant and one product record per vendor id.
AtMostOne(coll, field) ==
    \A i, j \in DOMAIN coll : coll[i][field] = coll[j][field] => i = j

C3_OneRecordPerVendorId ==
    /\ AtMostOne(subscription, "subscription_id")
    /\ AtMostOne(variant, "variant_id")
    /\ AtMostOne(product, "product_id")

\* a sync pass and then a webhook delivery have upserted, ids recurring
C3_Witness ==
    /\ Len(subscription) = 2 /\ Len(variant) = 2 /\ Len(product) = 1
    /\ last.kind = "webhook" /\ last.status = 200
    /\ SaveOf(last).op = "update"

\* C4: two validly signed deliveries for one subscription id that is not in
\* the store, both having run their lookup before either saves: the first
\* to save has created the record, the second still holds an empty lookup
\* result; when it saves it creates a second record, and the store then
\* holds two records with that id.
C4_RaceDuplicates ==
    [][\A h \in Slots :
          (/\ last.kind = "webhook" /\ last.status = 200
           /\ SaveOf(last).op = "create"
           /\ inflight[h].pc = "webhook save"
           /\ inflight[h].existing = <<>>
           /\ DataOf(inflight[h]).id = DataOf(last).id
           /\ inflight'[h].pc = "idle"
           /\ last'.status = 200)
          => /\ Count(subscription', "subscription_id", DataOf(last).id) = 2
             /\ SaveOf(last').op = "create"
             /\ SaveOf(last').idx # SaveOf(last).idx
             /\ subscription'[SaveOf(last).idx].subscription_id = DataOf(last).id
             /\ subscription'[SaveOf(last').idx].subscription_id = DataOf(last).id]_vars

\* both deliveries found nothing and both have saved
C4_Witness ==
    /\ last.kind = "webhook" /\ last.status = 200
    /\ Len(last.trace) = 3
    /\ last.trace[2].op = "find" /\ last.trace[2].idx = 0
    /\ SaveOf(last).op = "create" /\ SaveOf(last).idx = 2
    /\ subscription[1].subscription_id = subscription[2].subscription_id

\* C5: a checkout request of an authenticated user who has no customer
\* record, the vendor answering both calls with success: the handler calls
\* the vendor's customer creation exactly once and the store gains exactly
\* one customer record, which maps the user's id to the customer id the
\* vendor returned.
C5_CheckoutCreatesCustomer ==
    [][\A h \in Slots :
          (/\ inflight[h].pc = "checkout call" /\ inflight'[h].pc = "idle"
           /\ Count(customer, "user_id", inflight[h].user) = 0
           /\ Len(last'.answers) = 2
           /\ last'.answers[1].kind = "ok" /\ last'.answers[2].kind = "ok")
          => /\ Cardinality(Called(last'.trace, "POST /v1/customers")) = 1
             /\ Len(customer') = Len(customer) + 1
             /\ SubSeq(customer', 1, Len(customer)) = customer
             /\ customer'[Len(customer')].user_id = inflight[h].user
             /\ customer'[Len(customer')].lemonsqueezy_customer_id = last'.answers[1].id
             /\ Count(customer', "user_id", inflight[h].user) = 1
             /\ UNCHANGED <<subscription, variant, product>>]_vars

\* the second user's first checkout has created the second customer record
C5_Witness ==
    /\ last.kind = "checkout" /\ last.user = "u2" /\ last.status = 201
    /\ Len(customer) = 2
    /\ customer[2] = [lemonsqueezy_customer_id |-> "102", user_id |-> "u2"]
    /\ customer[1].user_id = "u1"

\* C6: a sync pass to which the vendor answers an empty list of
\* subscriptions, of variants and of products saves no record and responds
\* 200 with the message "success".
NothingListed == [kind |-> "ok", status |-> 200, id |-> "", data |-> <<>>]

C6_EmptySyncWritesNothing ==
    [][(/\ Finished /\ last'.kind = "sync"
        /\ last'.answers = <<NothingListed, NothingListed, NothingListed>>)
       => /\ UNCHANGED Store
          /\ Wrote(last'.trace) = {}
          /\ last'.status = 200
          /\ last'.message = "success"
          /\ Cardinality(Did(last'.trace, {"http"})) = 3]_vars

\* an empty pass has run over a store that holds records
C6_Witness ==
    /\ last.kind = "sync"
    /\ last.answers = <<NothingListed, NothingListed, NothingListed>>
    /\ last.status = 200
    /\ subscription # <<>> /\ variant # <<>> /\ product # <<>>

\* C7: after a validly signed delivery of subscription_created,
\* subscription_cancelled or subscription_updated handled without a storage
\* error, the store holds a subscription record whose subscription_id is the
\* event's data.id and whose mapped fields are the event's attributes.
\* As claimed, the defaults "", 0 and false stand in for the absent
\* attributes only; as amended, for every attribute that is absent or falsy
\* (null, 0, false, the empty string).
Mapped(r, sub, defaulted) ==
    /\ r.subscription_id = sub.id
    /\ r.lemonsqueezy_customer_id = defaulted[OptAttr(sub, "customer_id"), ""]
    /\ r.status = defaulted[OptAttr(sub, "status"), ""]
    /\ r.variant_id = defaulted[OptAttr(sub, "variant_id"), ""]
    /\ r.quantity = defaulted[OptQuantity(sub), "<0>"]
    /\ r.cancel_at_period_end = defaulted[OptAttr(sub, "cancelled"), "<false>"]
    /\ r.current_period_start = defaulted[OptAttr(sub, "created_at"), ""]
    /\ r.current_period_end = defaulted[OptAttr(sub, "renews_at"), ""]
    /\ r.ended_at = defaulted[OptAttr(sub, "ends_at"), ""]
    /\ r.trial_end = defaulted[OptAttr(sub, "trial_ends_at"), ""]

JsValues ==
    {Undefined, Null, "", "<0>", "<false>", "<true>", "<2>", "<7>", "<8>", "<11>",
     "active", "on_trial", "cancelled", "2024-01-01", "2024-02-01", "2024-03-01",
     "2024-01-15"}
Defaults == {"", "<0>", "<false>"}
IfAbsent == [a \in JsValues, d \in Defaults |-> IF a = Undefined THEN d ELSE a]
IfAbsentOrFalsy ==
    [a \in JsValues, d \in Defaults |->
        IF a \in {Undefined, Null, "", "<0>", "<false>"} THEN d ELSE a]

Upserted(r) ==
    /\ r.kind = "webhook" /\ Signed(r) /\ r.status = 200
    /\ EventOf(r) \in {"subscription_created", "subscription_cancelled",
                       "subscription_updated"}

C7_MappedWhenPresent ==
    Upserted(last) =>
        \E i \in DOMAIN subscription : Mapped(subscription[i], DataOf(last), IfAbsent)

C7_MappedWithFalsyDefaults ==
    Upserted(last) =>
        \E i \in DOMAIN subscription :
            Mapped(subscription[i], DataOf(last), IfAbsentOrFalsy)

\* the delivery of a subscription whose ends_at and trial_ends_at are null
C7_Witness ==
    /\ Upserted(last)
    /\ DataOf(last).attributes.ends_at = Null
    /\ \E i \in DOMAIN subscription :
          /\ subscription[i].subscription_id = DataOf(last).id
          /\ subscription[i].ended_at = ""
          /\ subscription[i].status = "on_trial"

\* C8: a validly signed delivery whose event name is none of the case labels
\* is answered 200 "Data received successfully", throws nothing and leaves
\* every collection unchanged; it never gets as far as the lookup.
Recognized(r) ==
    EventOf(r) \in {"subscription_created", "subscription_cancelled",
                    "subscription_updated"}

C8_UnknownEventIgnored ==
    [][/\ (Finished /\ last'.kind = "webhook" /\ Signed(last') /\ ~Recognized(last'))
            => /\ last'.status = 200
               /\ last'.message = "Data received successfully"
               /\ last'.thrown = ""
               /\ Wrote(last'.trace) = {}
               /\ UNCHANGED Store
       /\ \A h \in Slots : inflight'[h].kind = "webhook" => Recognized(inflight'[h])]_vars

\* an order_created delivery was answered, the store holding records
C8_Witness ==
    /\ last.kind = "webhook" /\ Signed(last)
    /\ EventOf(last) = "order_created"
    /\ last.status = 200
    /\ subscription # <<>>

\* C9: for a validly signed delivery of each of the three events the header
\* comment documents (subscription_created, subscription_cancelled,
\* subscription_payment_success), answered without a storage error, the
\* handler has looked the subscription up by the event's id and created or
\* updated its record.
C9_DocumentedEventsUpsert ==
    (/\ last.kind = "webhook" /\ Signed(last) /\ last.status = 200
     /\ EventOf(last) \in {"subscription_created", "subscription_cancelled",
                           "subscription_payment_success"})
    => /\ \E i \in Did(last.trace, {"find"}) : last.trace[i].arg = DataOf(last).id
       /\ \E i \in Wrote(last.trace) : last.trace[i].arg = DataOf(last).id
       /\ Count(subscription, "subscription_id", DataOf(last).id) >= 1

\* C10: a checkout or portal request whose token the host runtime does not
\* accept is answered 400, calls the vendor never and writes no record; a
\* checkout request with such a token never gets as far as the lookup.
Accepted(r) == r.header \in {"token u1", "token u2"}

C10_UnauthorizedRejected ==
    [][/\ (Finished /\ last'.kind \in {"checkout", "portal"} /\ ~Accepted(last'))
            => /\ last'.status = 400
               /\ Did(last'.trace, {"http"}) = {}
               /\ Wrote(last'.trace) = {}
               /\ UNCHANGED Store
       /\ \A h \in Slots : inflight'[h].kind = "checkout" => Accepted(inflight'[h])]_vars

\* a portal request with a token that is not accepted was answered, a
\* customer record being there
C10_Witness ==
    /\ last.kind = "portal" /\ last.header = "expired token"
    /\ last.status = 400
    /\ customer # <<>>

\* C11: a checkout request during which a call to the vendor raised an
\* error, the customer-creation call of a user without a customer record
\* included, is answered 400 "Failed to create checkout" and the handler
\* throws nothing.
Raised(r) == {i \in DOMAIN r.answers : r.answers[i].kind = "throws"}

C11_VendorErrorsAnsweredGenerically ==
    (last.kind = "checkout" /\ Raised(last) # {})
    => /\ last.status = 400
       /\ last.message = "Failed to create checkout"
       /\ last.thrown = ""

\* C12: a checkout request whose call to POST /v1/checkouts returned a
\* response, of whatever status, is answered with the status and the body
\* of that response.
CheckoutResponse(r) == r.answers[Len(r.answers)]
Forwarded(r) ==
    /\ r.kind = "checkout" /\ r.trace # <<>> /\ r.answers # <<>>
    /\ SaveOf(r).op = "http" /\ SaveOf(r).coll = "POST /v1/checkouts"
    /\ CheckoutResponse(r).kind # "throws"

C12_CheckoutRelayedVerbatim ==
    Forwarded(last)
    => /\ last.status = CheckoutResponse(last).status
       /\ last.message = Json(CheckoutResponse(last))
       /\ last.thrown = ""

\* the vendor refused the checkout with 422 and its error document, and the
\* caller got both
C12_Witness ==
    /\ Forwarded(last)
    /\ last.status = 422 /\ last.message = "{errors}"

\* C13: after a portal request of an authenticated user who had no customer
\* record, a customer record of that user exists and one call to the vendor
\* was forwarded (as stated); as amended: the portal handler never creates a
\* customer record, and after such a request the customer collection is
\* unchanged, still holds no record of that user, and no call to the vendor
\* was made.
PortalWithoutCustomer ==
    /\ Finished /\ last'.kind = "portal" /\ Accepted(last')
    /\ Count(customer, "user_id", last'.user) = 0

C13_PortalCreatesCustomer ==
    [][PortalWithoutCustomer
       => /\ Count(customer', "user_id", last'.user) = 1
          /\ Cardinality(Did(last'.trace, {"http"})) = 1]_vars

C13_PortalNeverCreatesCustomer ==
    [][PortalWithoutCustomer
       => /\ customer' = customer
          /\ Count(customer', "user_id", last'.user) = 0
          /\ Wrote(last'.trace) = {}
          /\ Did(last'.trace, {"http"}) = {}]_vars

\* user u2 asked for a portal link while only u1 had a customer record
C13_Witness ==
    /\ last.kind = "portal" /\ last.user = "u2"
    /\ Count(customer, "user_id", "u2") = 0
    /\ Count(customer, "user_id", "u1") = 1
    /\ Did(last.trace, {"find"}) # {}

\* C14: a portal request of an authenticated user who has no customer
\* record is answered 404 "Customer not found" and calls the vendor never.
C14_PortalUnknownCustomer404 ==
    (/\ last.kind = "portal" /\ Accepted(last)
     /\ \E i \in Did(last.trace, {"find"}) : last.trace[i].idx = 0)
    => /\ last.status = 404
       /\ last.message = "Customer not found"
       /\ Did(last.trace, {"http"}) = {}

\* C15: in a sync pass the three lists are fetched and processed in the
\* order subscriptions, variants, products: when the variants are requested
\* the subscriptions have been requested and every subscription item has
\* been upserted, when the products are requested the same holds of the
\* variants, and the items of a list are upserted after its request.
Of(trace, name) == {i \in DOMAIN trace : trace[i].coll = name}
Requested(trace, name) == Called(trace, "GET /v1/" \o name \o "s")
Before(I, J) == \A i \in I, j \in J : i < j

InOrder(r, k, name, next) ==
    /\ Before(Requested(r.trace, name), Of(r.trace, name))
    /\ Requested(r.trace, next) # {}
       => /\ Cardinality(Requested(r.trace, name)) = 1
          /\ Before(Of(r.trace, name), Requested(r.trace, next))
          /\ Cardinality(Of(r.trace, name) \cap Wrote(r.trace)) = Len(r.answers[k].data)

C15_SyncStagesInOrder ==
    last.kind = "sync"
    => /\ InOrder(last, 1, "subscription", "variant")
       /\ InOrder(last, 2, "variant", "product")
       /\ Before(Requested(last.trace, "product"), Of(last.trace, "product"))
       /\ Before(Requested(last.trace, "subscription"), Requested(last.trace, "product"))

\* a pass over three subscriptions, two variants and a product went through
C15_Witness ==
    /\ last.kind = "sync" /\ last.status = 200
    /\ Cardinality(Wrote(last.trace)) = 6
    /\ Requested(last.trace, "product") # {}

\* C16: in a sync pass in which the lookup or the save of item number n of a
\* list fails, items after n of that list are neither looked up nor saved:
\* the list has had n lookups, n - 1 records saved, the failure is the last
\* thing the pass did, and the pass is answered 400.
Lookups(trace, name) == Of(trace, name) \cap Did(trace, {"find", "find failed"})

C16_FailureEndsTheLoop ==
    (last.kind = "sync" /\ last.fault # NoFault)
    => /\ Cardinality(Lookups(last.trace, last.fault.stage)) = last.fault.at
       /\ Cardinality(Of(last.trace, last.fault.stage) \cap Wrote(last.trace))
              = last.fault.at - 1
       /\ SaveOf(last).op = last.fault.op \o " failed"
       /\ last.status = 400

\* the first of two variants failed to save
C16_Witness ==
    /\ last.kind = "sync" /\ last.fault = Fault("variant", 1, "save")
    /\ Len(last.answers[2].data) = 2
    /\ Len(variant) = 0 /\ Len(subscription) = 2

\* C17: with one request handled at a time, whatever the requests are, no
\* step changes or removes a customer record that exists, and no user id
\* ever has two customer records.
C17_CustomerCreatedOnce ==
    [][/\ \A i \in DOMAIN customer :
             i \in DOMAIN customer' /\ customer'[i] = customer[i]
       /\ AtMostOne(customer', "user_id")]_vars

\* both users have their customer record and one of them has made a second
\* checkout request, which found the record
C17_Witness ==
    /\ Len(customer) = 2
    /\ last.kind = "checkout" /\ last.status = 201
    /\ last.trace[1].op = "find" /\ last.trace[1].idx = 1
    /\ Wrote(last.trace) = {}

\* C18: with one request handled at a time, after a sync pass answered 200
\* every item of the three fetched lists has a local record of its kind
\* with its vendor id, and that record's fields are the mapping of the last
\* item of the list that has this id.
RECURSIVE LastWithId(_, _, _)
LastWithId(items, id, i) ==
    IF items[i].id = id THEN items[i] ELSE LastWithId(items, id, i - 1)

Synced(coll, field, datas) ==
    \A i \in DOMAIN datas :
        \E k \in DOMAIN coll :
            /\ coll[k][field] = datas[i][field]
            /\ coll[k] = datas[i]

LastOf(items) == [i \in DOMAIN items |-> LastWithId(items, items[i].id, Len(items))]

C18_SyncedWithVendor ==
    (last.kind = "sync" /\ last.status = 200)
    => /\ Synced(subscription, "subscription_id",
                 [i \in DOMAIN last.answers[1].data |->
                      SubscriptionData(LastOf(last.answers[1].data)[i])])
       /\ Synced(variant, "variant_id",
                 [i \in DOMAIN last.answers[2].data |->
                      VariantData(LastOf(last.answers[2].data)[i])])
       /\ Synced(product, "product_id",
                 [i \in DOMAIN last.answers[3].data |->
                      ProductData(LastOf(last.answers[3].data)[i])])

\* a pass went through whose list names subscription 2 twice, after a
\* webhook had created subscription 1 with other values; the record of 2 is
\* the mapping of the later item, the record of 1 that of the listed item
C18_Witness ==
    /\ last.kind = "sync" /\ last.status = 200
    /\ Len(last.answers[1].data) = 3
    /\ \E i \in Wrote(last.trace) :
          last.trace[i].op = "update" /\ last.trace[i].arg = "1"
    /\ \E k \in DOMAIN subscription : subscription[k] = SubscriptionData(SubBare)
    /\ \E k \in DOMAIN subscription : subscription[k] = SubscriptionData(SubActive)

\* C19: once the hooks file is loaded a periodic trigger is registered that
\* starts a sync pass every 30 minutes, so that passes run without a request
\* to the manual route: whatever requests have been handled, the
\* registrations hold a cron job with that schedule which runs the pass.
C19_CronSyncRegistered ==
    started >= 0
    => \E t \in Registered :
          t.by = "cronAdd" /\ t.on = "*/30 * * * *" /\ t.runs = "sync"

\* C20: a validly signed delivery of subscription_created,
\* subscription_cancelled or subscription_updated whose lookup or save
\* failed ends with the bad-request error "Failed to process
\* subscription: ..." (400), never with 200 "Data received successfully",
\* and has saved nothing.
C20_StorageFailureIs400 ==
    (last.kind = "webhook" /\ Signed(last) /\ Recognized(last)
     /\ last.fault # NoFault)
    => /\ last.status = 400
       /\ last.message = FailedSubscription
       /\ last.thrown = "BadRequestError"
       /\ last.message # "Data received successfully"
       /\ Wrote(last.trace) = {}

\* a delivery for a subscription that is in the store failed to save
C20_Witness ==
    /\ last.kind = "webhook" /\ Signed(last) /\ Recognized(last)
    /\ last.fault = Fault("subscription", 1, "save")
    /\ \E i \in Did(last.trace, {"find"}) : last.trace[i].idx = 1
    /\ SaveOf(last).op = "save failed"

\* C21: every sync pass ends with a response and throws nothing out of the
\* handler: 200 "success" exactly when the three lists were fetched and no
\* lookup or save failed, and 400 in every other case.
Completed(r) ==
    /\ \A k \in 1..3 : r.answers[k].kind = "ok"
    /\ r.fault = NoFault

C21_SyncAlwaysAnswers ==
    last.kind = "sync"
    => /\ last.thrown = ""
       /\ last.status \in {200, 400}
       /\ last.status = 200 <=> Completed(last)
       /\ last.status = 200 => last.message = "success"

\* a pass whose variants request was refused by the vendor was answered 400
C21_Witness ==
    /\ last.kind = "sync" /\ last.status = 400
    /\ last.answers[1].kind = "ok" /\ last.answers[2] = ErrorBody
    /\ last.fault = NoFault

\* C22: a sync pass that fails: the records it saved before the failure
\* hold the values it gave them, the lists of the stages after the failing
\* one are not requested, and the collections of those stages are neither
\* looked up nor written.
StageNames == <<"subscription", "variant", "product">>
Coll(name) ==
    CASE name = "subscription" -> subscription
      [] name = "variant" -> variant
      [] name = "product" -> product
ItemData(name, item) ==
    CASE name = "subscription" -> SubscriptionData(item)
      [] name = "variant" -> VariantData(item)
      [] name = "product" -> ProductData(item)

FailedStage(r) ==
    IF r.fault # NoFault THEN CHOOSE k \in 1..3 : StageNames[k] = r.fault.stage
    ELSE CHOOSE k \in 1..3 :
            r.answers[k].kind # "ok" /\ \A j \in 1..(k - 1) : r.answers[j].kind = "ok"

Writes(trace, name) == Of(trace, name) \cap Wrote(trace)
\* the item of the list that the write at position i of the trace saved
ItemNo(trace, name, i) == Cardinality({j \in Writes(trace, name) : j <= i})

C22_FailedSyncKeepsAndStops ==
    [][(Finished /\ last'.kind = "sync" /\ last'.status = 400)
       => \A k \in 1..3 :
             LET name == StageNames[k]
                 trace == last'.trace
             IN  /\ \A i \in Writes(trace, name) :
                        (\A j \in Writes(trace, name) :
                            j > i => trace[j].idx # trace[i].idx)
                        => /\ trace[i].idx \in DOMAIN Coll(name)'
                           /\ Coll(name)'[trace[i].idx] =
                                 ItemData(name,
                                          last'.answers[k].data[ItemNo(trace, name, i)])
                 /\ k > FailedStage(last')
                    => /\ Requested(trace, name) = {}
                       /\ Of(trace, name) = {}
                       /\ Coll(name)' = Coll(name)]_vars

\* the lookup of the second variant failed: three subscription saves and
\* the first variant are in the store, the products were never requested
C22_Witness ==
    /\ last.kind = "sync" /\ last.status = 400
    /\ last.fault = Fault("variant", 2, "find")
    /\ Len(subscription) = 2 /\ Len(variant) = 1 /\ Len(product) = 0
    /\ variant[1] = VariantData(VariantMonthly)
    /\ Requested(last.trace, "product") = {}

\* C23: a validly signed delivery of a subscription event that is handled
\* without error, no other request having changed the records of its id
\* between its lookup and its save, leaves the subscription collection as a
\* sync pass would whose subscriptions list holds the event's data as its
\* single item, run on the same store (stores with several records of one
\* id included).
AsSinglePass(sub) ==
    Stage(subscription, "subscription", "subscription_id", Listed(<<sub>>),
          <<SubscriptionData(sub)>>, NoFault, <<>>)

C23_WebhookUpsertIsSyncUpsert ==
    [][\A h \in Slots :
          (/\ inflight[h].pc = "webhook save" /\ inflight'[h].pc = "idle"
           /\ last'.status = 200
           /\ inflight[h].existing =
                 findRecordsByFilter(subscription, "subscription_id",
                                     DataOf(inflight[h]).id))
          => /\ AsSinglePass(DataOf(inflight[h])).ok
             /\ subscription' = AsSinglePass(DataOf(inflight[h])).coll]_vars

\* a subscription_updated delivery has updated the first of two records
\* that share its id
C23_Witness ==
    /\ last.kind = "webhook" /\ last.status = 200
    /\ EventOf(last) = "subscription_updated"
    /\ SaveOf(last).op = "update" /\ SaveOf(last).idx = 1
    /\ Count(subscription, "subscription_id", DataOf(last).id) = 2
    /\ subscription[1] # subscription[2]

\* C25: a checkout request of a user for whom the lookup found no customer
\* record calls the vendor's customer creation once; a customer record is
\* saved only after that call, only when it returned an id, and with that
\* id; the checkout call is made only after the save; when the creation
\* call failed or returned no id, nothing is written and no checkout call
\* is made.
C25_CustomerBeforeCheckout ==
    [][\A h \in Slots :
          (/\ inflight[h].pc = "checkout call" /\ inflight[h].existing = <<>>
           /\ inflight'[h].pc = "idle")
          => LET t == last'.trace
                 a == last'.answers[1]
                 created == Called(t, "POST /v1/customers")
                 checkedOut == Called(t, "POST /v1/checkouts")
             IN  /\ Cardinality(created) = 1
                 /\ a.kind # "ok" \/ a.id = ""
                    => Wrote(t) = {} /\ customer' = customer /\ checkedOut = {}
                 /\ \A w \in Wrote(t) :
                       /\ Before(created, {w})
                       /\ a.kind = "ok" /\ a.id # ""
                       /\ t[w].idx \in DOMAIN customer'
                       /\ customer'[t[w].idx].lemonsqueezy_customer_id = a.id
                 /\ \A k \in checkedOut : \E w \in Wrote(t) : w < k]_vars

\* the vendor answered the customer creation with an error document while
\* another user's customer record was in the store; nothing was added
C25_Witness ==
    /\ last.kind = "checkout" /\ last.thrown = "TypeError"
    /\ last.answers = <<ErrorBody>>
    /\ Len(customer) = 1 /\ customer[1].user_id # last.user
    /\ Called(last.trace, "POST /v1/checkouts") = {}

\* C26: two checkout requests of one user without a customer record, both
\* having looked the customer up before either saved, the vendor answering
\* both customer creations with an id: the vendor is asked twice to create
\* a customer, both requests create a record, and the store then holds two
\* customer records of that user.
Created(r) == r.answers # <<>> /\ r.answers[1].kind = "ok" /\ Wrote(r.trace) # {}

C26_CheckoutRaceDuplicates ==
    [][\A h \in Slots :
          (/\ last.kind = "checkout" /\ Created(last)
           /\ inflight[h].pc = "checkout call"
           /\ inflight[h].existing = <<>>
           /\ inflight[h].user = last.user
           /\ inflight'[h].pc = "idle"
           /\ last'.answers[1].kind = "ok")
          => /\ Count(customer', "user_id", last.user) = 2
             /\ Cardinality(Called(last.trace, "POST /v1/customers")) = 1
             /\ Cardinality(Called(last'.trace, "POST /v1/customers")) = 1
             /\ Cardinality(Wrote(last'.trace)) = 1
             /\ \A w \in Wrote(last'.trace) :
                   /\ last'.trace[w].op = "create"
                   /\ \A v \in Wrote(last.trace) :
                         last'.trace[w].idx # last.trace[v].idx]_vars

\* both requests of user u1 found no customer and both have saved one
C26_Witness ==
    /\ last.kind = "checkout" /\ last.user = "u1" /\ Created(last)
    /\ last.trace[1].op = "find" /\ last.trace[1].idx = 0
    /\ Len(customer) = 2
    /\ customer[1].user_id = "u1" /\ customer[2].user_id = "u1"

\* C27: each handler writes only its own collections.  A webhook request
\* saves at most one record, in the subscription collection, and calls the
\* vendor never; a checkout request writes the customer collection only; a
\* portal request writes nothing; a sync pass writes subscription, variant
\* and product and never customer.  The step that only looks a record up
\* writes nothing.
Changed(before, after) ==
    {k \in DOMAIN after : k \notin DOMAIN before \/ after[k] # before[k]}
WrittenTo(r) == {r.trace[w].coll : w \in Wrote(r.trace)}

C27_HandlersWriteOwnCollections ==
    [][/\ ~Finished => UNCHANGED Store
       /\ (Finished /\ last'.kind = "webhook")
          => /\ UNCHANGED <<variant, product, customer>>
             /\ Cardinality(Wrote(last'.trace)) <= 1
             /\ Cardinality(Changed(subscription, subscription')) <= 1
             /\ WrittenTo(last') \subseteq {"subscription"}
             /\ Did(last'.trace, {"http"}) = {}
       /\ (Finished /\ last'.kind = "checkout")
          => /\ UNCHANGED <<subscription, variant, product>>
             /\ WrittenTo(last') \subseteq {"customer"}
       /\ (Finished /\ last'.kind = "portal")
          => /\ UNCHANGED Store
             /\ WrittenTo(last') = {}
       /\ (Finished /\ last'.kind = "sync")
          => /\ UNCHANGED customer
             /\ WrittenTo(last') \subseteq {"subscription", "variant", "product"}]_vars

\* a delivery has updated one of two subscription records that share its id
C27_Witness ==
    /\ last.kind = "webhook" /\ last.status = 200
    /\ SaveOf(last).op = "update"
    /\ Count(subscription, "subscription_id", DataOf(last).id) = 2
    /\ subscription[1] # subscription[2]

\* C28: no step deletes a record or changes a record's vendor id, so no
\* collection shrinks; a record changes only in the step of a request that
\* saved an update for its id, and only if it is the first record of its
\* collection with that id; a record is added only by a request whose
\* lookup for that id had found nothing.
Kinds == {"subscription", "variant", "product", "customer"}
KeyOf(name) == IF name = "customer" THEN "user_id" ELSE name \o "_id"
Records(name) == IF name = "customer" THEN customer ELSE Coll(name)

Saved(t, name, op, k, id) ==
    \E w \in Wrote(t) :
        /\ t[w].coll = name /\ t[w].op = op /\ t[w].idx = k /\ t[w].arg = id
        /\ op = "create"
           => \E v \in 1..(w - 1) :
                 /\ t[v].op = "find" /\ t[v].coll = name
                 /\ t[v].arg = id /\ t[v].idx = 0

C28_UpsertTouchesFirstMatchOnly ==
    [][\A name \in Kinds :
          LET c == Records(name)
              d == Records(name)'
              f == KeyOf(name)
          IN  /\ Len(d) >= Len(c)
              /\ \A k \in DOMAIN c : d[k][f] = c[k][f]
              /\ \A k \in Changed(c, d) \cap DOMAIN c :
                    /\ Finished
                    /\ Saved(last'.trace, name, "update", k, c[k][f])
                    /\ \A j \in 1..(k - 1) : c[j][f] # c[k][f]
              /\ \A k \in DOMAIN d \ DOMAIN c :
                    /\ Finished
                    /\ Saved(last'.trace, name, "create", k, d[k][f])]_vars

\* a sync pass has run on a store with two records of subscription 1 that a
\* race of two deliveries had left: the first of them was updated, the
\* second kept its values, and the record of subscription 2 was added
C28_Witness ==
    /\ last.kind = "sync" /\ last.status = 200
    /\ Len(subscription) = 3
    /\ subscription[1] = SubscriptionData(SubActive)
    /\ subscription[2] = SubscriptionData(SubFull)
    /\ subscription[3].subscription_id = "2"

\* C29: with one request handled at a time, a successful sync pass that
\* follows a successful sync pass over the same three lists creates no
\* record and leaves every collection as the first pass left it.
C29_SyncIdempotent ==
    [][(/\ last.kind = "sync" /\ last.status = 200
        /\ Finished
        /\ last'.kind = "sync" /\ last'.status = 200
        /\ last'.answers = last.answers)
       => /\ UNCHANGED Store
          /\ Did(last'.trace, {"create"}) = {}
          /\ Len(subscription') = Len(subscription)
          /\ Len(variant') = Len(variant) /\ Len(product') = Len(product)]_vars

\* the second pass over the three subscriptions, two variants and the
\* product has only updated
C29_Witness ==
    /\ last.kind = "sync" /\ last.status = 200
    /\ Len(last.answers[1].data) = 3
    /\ Cardinality(Did(last.trace, {"update"})) = 6
    /\ Len(subscription) = 2 /\ Len(variant) = 2 /\ Len(product) = 1

\* C30: a checkout request of an authenticated user finds the customer
\* record exactly when the store holds one for the user, and a request that
\* found one calls the vendor once, for the checkout, never for a customer,
\* and writes nothing: the store is as it was.
C30_KnownCustomerNotRecreated ==
    [][\A h \in Slots :
          /\ (inflight[h].pc = "idle" /\ inflight'[h].pc = "checkout call")
             => (inflight'[h].existing # <<>>
                 <=> Count(customer, "user_id", inflight'[h].user) >= 1)
          /\ (/\ inflight[h].pc = "checkout call" /\ inflight[h].existing # <<>>
              /\ inflight'[h].pc = "idle")
             => /\ Called(last'.trace, "POST /v1/customers") = {}
                /\ Cardinality(Called(last'.trace, "POST /v1/checkouts")) = 1
                /\ Cardinality(Did(last'.trace, {"http"})) = 1
                /\ Wrote(last'.trace) = {}
                /\ UNCHANGED Store]_vars

\* the second checkout request of a user was refused by the vendor; the
\* user still has the one customer record
C30_Witness ==
    /\ last.kind = "checkout" /\ last.status = 422
    /\ last.trace[1].op = "find" /\ last.trace[1].idx = 1
    /\ Len(last.trace) = 2
    /\ Count(customer, "user_id", last.user) = 1

====
